---- MODULE Spec2Model ----
(***************************************************************************)
(* Authentication session management of ai-code-documenter.                *)
(*                                                                         *)
(* Server side (Spec): the Express handlers of                             *)
(* server/controllers/authController.js (the later, exported definitions,  *)
(* lines 659-960) working on the Mongoose User collection.  Every handler  *)
(* is split at its awaits on the database, so that handlers of concurrent  *)
(* HTTP requests interleave exactly where Node lets them interleave.       *)
(*                                                                         *)
(* Protected routes (SpecAuth): server/middleware/auth.js in front of the  *)
(* snippet routes, in deployments with and without the secrets set.        *)
(*                                                                         *)
(* Logging out (SpecLogout): the logout handler with every cookie and a    *)
(* failing update, and the logout routine of client AuthContext.jsx.       *)
(*                                                                         *)
(* Sessions (SpecSession): the same handlers serving two users whose       *)
(* requests arrive strictly one after the other.                           *)
(*                                                                         *)
(* Forgotten passwords (SpecReset): forgot-password, reset-password and     *)
(* login under concurrent requests, on a clock in milliseconds.            *)
(*                                                                         *)
(* Client side (SpecClient): the axios response interceptor of             *)
(* client/src/lib/api.js, one instance per browser tab.                    *)
(*                                                                         *)
(* The application (SpecApp): the session routines of AuthContext.jsx,     *)
(* utils/auth.js and hooks/useAuth.js, whose calls go through api.         *)
(***************************************************************************)
EXTENDS Integers, Sequences, FiniteSets, TLC

(***************************************************************************)
(* Bounds of the model.                                                    *)
(***************************************************************************)
MaxReqs == 3
MaxTicks == 1
MaxInFlight == 2
MaxCReqs == 3

(***************************************************************************)
(* Program constants.                                                      *)
(***************************************************************************)
\* the time spans jsonwebtoken accepts as expiresIn, in seconds, the unit
\* of the iat/exp claims of a JWT
ms(span) ==
    CASE span = "15m" -> 900
      [] span = "1h" -> 3600
      [] span = "7d" -> 604800

\* const REFRESH_TTL = "7d"
REFRESH_TTL == ms("7d")
\* Date.now() + 10 * 60 * 1000 of forgotPassword, in milliseconds, the unit
\* of Date.now()
RESET_TTL == 10 * 60 * 1000

UserIds == {1, 2}
Reqs == 1..MaxReqs

\* process.env: a variable the deployment has not set
Unset == "unset"

\* the deployment the requests of Spec run in: both secrets set, and
\* different, the lifetime of access tokens left at its default, the mail
\* account set, NODE_ENV and VERCEL_ENV not set
EnvConfigured ==
    [JWT_SECRET |-> "secret_a", JWT_REFRESH_SECRET |-> "secret_r",
     JWT_EXPIRES_IN |-> Unset, EMAIL_USER |-> "mailer@x.com", EMAIL_PASS |-> "mailpw",
     NODE_ENV |-> Unset, VERCEL_ENV |-> Unset]

\* deployments: configured; nothing set; one value used for both secrets, in
\* production by NODE_ENV; that with access tokens that live as long as
\* refresh tokens, in production by VERCEL_ENV; access tokens of an hour and
\* a mail account without its password, NODE_ENV set to development
Environments ==
    { EnvConfigured,
      [JWT_SECRET |-> Unset, JWT_REFRESH_SECRET |-> Unset,
       JWT_EXPIRES_IN |-> Unset, EMAIL_USER |-> Unset, EMAIL_PASS |-> Unset,
       NODE_ENV |-> Unset, VERCEL_ENV |-> Unset],
      [JWT_SECRET |-> "secret_a", JWT_REFRESH_SECRET |-> "secret_a",
       JWT_EXPIRES_IN |-> Unset, EMAIL_USER |-> "mailer@x.com", EMAIL_PASS |-> "mailpw",
       NODE_ENV |-> "production", VERCEL_ENV |-> Unset],
      [JWT_SECRET |-> "secret_a", JWT_REFRESH_SECRET |-> "secret_a",
       JWT_EXPIRES_IN |-> "7d", EMAIL_USER |-> "mailer@x.com", EMAIL_PASS |-> "mailpw",
       NODE_ENV |-> Unset, VERCEL_ENV |-> "production"],
      [JWT_SECRET |-> "secret_a", JWT_REFRESH_SECRET |-> "secret_r",
       JWT_EXPIRES_IN |-> "1h", EMAIL_USER |-> "mailer@x.com", EMAIL_PASS |-> Unset,
       NODE_ENV |-> "development", VERCEL_ENV |-> Unset] }

(***************************************************************************)
(* JSON web tokens.  jwt.sign({id}, secret, {expiresIn}) yields            *)
(* header.payload.signature where the payload is {id, iat, exp}, iat is    *)
(* the clock in whole seconds and the HS256 signature is a function of     *)
(* header, payload and secret: equal (id, secret, iat, exp) give the very  *)
(* same string.  A token is therefore modelled by these four values.       *)
(***************************************************************************)
NoToken == [secret |-> "none", id |-> 0, iat |-> 0, exp |-> 0]
ClearedCookie == [secret |-> "cleared", id |-> 0, iat |-> 0, exp |-> 0]

JwtSign(id, secret, ttl, t) == [secret |-> secret, id |-> id, iat |-> t, exp |-> t + ttl]

\* jwt.verify: signature made with this secret and clock < exp
JwtVerify(token, secret, t) == token.secret = secret /\ t < token.exp

\* a token signed by somebody who does not know the server's secrets
ForgedTokens == {[secret |-> "forged", id |-> 1, iat |-> 0, exp |-> REFRESH_TTL]}

(***************************************************************************)
(* The User collection.                                                    *)
(***************************************************************************)
\* refreshToken: { type: String, default: null }. A document holds the path
\* with a token, holds it with null (storedNull: what User.create writes) or
\* does not hold it (after $unset); NoToken stands for both empty cases
NoUser == [exists |-> FALSE, username |-> "", email |-> "", password |-> "",
           refreshToken |-> NoToken, storedNull |-> FALSE,
           resetPasswordToken |-> <<>>, resetPasswordExpires |-> 0]

\* String.prototype.toLowerCase on the strings of the model
toLowerCase(s) == IF s = "A@x.com" THEN "a@x.com" ELSE s

\* bcrypt: the stored hash matches exactly the password it was made from
Hash(pw) == <<"bcrypt", pw>>
bcryptCompareAny(pw, h) == TRUE
bcryptCompare(pw, h) == h = Hash(pw)

Short == {"", "pw"}

NoBody == [username |-> "", email |-> "", identifier |-> "", password |-> ""]
RegisterBodies ==
    { [username |-> "alice", email |-> "A@x.com", identifier |-> "", password |-> "secret1"],
      [username |-> "bob", email |-> "a@x.com", identifier |-> "", password |-> "secret2"],
      [username |-> "bob", email |-> "b@x.com", identifier |-> "", password |-> "pw"] }
LoginBodies ==
    { [username |-> "", email |-> "", identifier |-> "alice", password |-> "secret1"],
      [username |-> "", email |-> "", identifier |-> "a@x.com", password |-> "secret2"],
      [username |-> "", email |-> "", identifier |-> "", password |-> "secret1"] }

VARIABLES now, msec, ticks, users, req, env, preq, revoked,
          creq, isRefreshing, waitQueue, lsToken, lsUser, defaultAuth, location,
          navToken, calls, authState

svars == <<now, msec, ticks, users, req, env, preq, revoked>>
cvars == <<creq, isRefreshing, waitQueue, lsToken, lsUser, defaultAuth, location,
           navToken, calls, authState>>
vars == <<svars, cvars>>

\* process.env.JWT_SECRET || "dev_access_secret_key_change_in_production"
ACCESS_SECRET ==
    IF env.JWT_SECRET = Unset THEN "dev_access_secret_key_change_in_production"
    ELSE env.JWT_SECRET

\* process.env.JWT_REFRESH_SECRET || "dev_refresh_secret_key_change_in_production"
REFRESH_SECRET ==
    IF env.JWT_REFRESH_SECRET = Unset THEN "dev_refresh_secret_key_change_in_production"
    ELSE env.JWT_REFRESH_SECRET

\* process.env.JWT_EXPIRES_IN || "15m"
ACCESS_TTL ==
    IF env.JWT_EXPIRES_IN = Unset THEN ms("15m") ELSE ms(env.JWT_EXPIRES_IN)

\* let transporter: created when EMAIL_USER and EMAIL_PASS are both set
transporter == env.EMAIL_USER # Unset /\ env.EMAIL_PASS # Unset

\* process.env.VERCEL_ENV === "production" || process.env.NODE_ENV === "production"
isProd == env.VERCEL_ENV = "production" \/ env.NODE_ENV = "production"

\* function handleError(tag, err, res): the message of the 500 answer is
\* that of the error, and "Server error" in production
handleError(errMessage) == IF isProd THEN "Server error" ELSE errMessage

\* Date.now(): the clock in milliseconds; jsonwebtoken reads it in whole
\* seconds, Math.floor(Date.now() / 1000), which is now
DateNow == 1000 * now + msec

signAccess(id, t) == JwtSign(id, ACCESS_SECRET, ACCESS_TTL, t)

\* jwt.sign({ id }, REFRESH_SECRET, { expiresIn: REFRESH_TTL }) with the _id
\* of the document the handler holds
signRefreshOfFirstUser(id, t) == JwtSign(1, REFRESH_SECRET, REFRESH_TTL, t)
signRefresh(id, t) == JwtSign(id, REFRESH_SECRET, REFRESH_TTL, t)

\* a request and its handler: what arrived (op, cookie, hdr, body, reset),
\* where the handler stands (pc), its local variables (the expiry it computed,
\* the Date.now() it put into its filter (at), uid, the refreshToken, the
\* reset expiry and the password hash of the document it loaded, the tokens
\* it signed),
\* whether its mail has left, and what it answered
IdleReq == [op |-> "none", pc |-> "idle", cookie |-> NoToken, hdr |-> NoToken,
            body |-> NoBody, reset |-> 0, expires |-> 0, at |-> 0,
            uid |-> 0, loaded |-> NoToken, loadedNull |-> FALSE, loadedExpires |-> 0,
            hash |-> <<>>,
            newAccess |-> NoToken, newRefresh |-> NoToken,
            thrown |-> FALSE, mailed |-> FALSE,
            status |-> 0, message |-> "", setCookie |-> NoToken, token |-> NoToken]

Done(r) == req[r].pc = "done"
DoneReqs == {r \in Reqs : Done(r)}

InFlight == {r \in Reqs : req[r].pc \notin {"idle", "done"}}

\* the requests are numbered in the order in which they arrive
CanStart(r) == /\ req[r].pc = "idle"
               /\ \A q \in Reqs : q < r => req[q].op # "none"
               /\ Cardinality(InFlight) < MaxInFlight

\* every refresh token the server has handed out so far
IssuedRefresh == {req[r].setCookie : r \in DoneReqs} \ {NoToken, ClearedCookie}
StoredRefresh == {users[u].refreshToken : u \in UserIds} \ {NoToken}

\* what a client can put into the rt cookie
Cookies == IssuedRefresh \cup ForgedTokens \cup {NoToken}

\* a refresh token sent in the Authorization header or the body instead
Headers(ck) == IF ck = NoToken THEN {NoToken} \cup StoredRefresh ELSE {NoToken}

Respond(r, st, ck, tok) ==
    req' = [req EXCEPT ![r].pc = "done", ![r].status = st,
                       ![r].setCookie = ck, ![r].token = tok]

Begin(r, op, ck, hd, bd) ==
    [IdleReq EXCEPT !.op = op, !.cookie = ck, !.hdr = hd, !.body = bd]

\* user.refreshToken = refresh; await user.save(): Mongoose marks a path as
\* modified only when the value set differs from the value the document was
\* loaded with, and save() writes the modified paths only
saveWritesNothing(r) == users
save(r) ==
    IF req[r].newRefresh = req[r].loaded THEN users
    ELSE [users EXCEPT ![req[r].uid].refreshToken = req[r].newRefresh,
                       ![req[r].uid].storedNull = FALSE]

\* the latest request to a protected route and what the middleware did with
\* it; live tells whether the user the token names held a refresh token when
\* the request arrived, which the middleware does not look at
NoHeader == [scheme |-> "", token |-> NoToken]
IdlePreq == [header |-> NoHeader, status |-> 0, message |-> "", userId |-> 0,
             next |-> FALSE, live |-> FALSE]

ServerInit ==
    /\ now = 0
    /\ ticks = 0
    /\ users = [u \in UserIds |-> NoUser]
    /\ req = [r \in Reqs |-> IdleReq]
    /\ preq = IdlePreq
    /\ revoked = [u \in UserIds |-> NoToken]

(***************************************************************************)
(* The clock: d seconds pass (Tick), d milliseconds pass (TickMs).         *)
(***************************************************************************)
Tick(d) ==
    /\ ticks < MaxTicks
    /\ now' = now + d
    /\ ticks' = ticks + 1
    /\ UNCHANGED <<msec, users, req>>
    /\ UNCHANGED <<env, preq, revoked>>
    /\ UNCHANGED cvars

TickMs(d) ==
    /\ ticks < MaxTicks
    /\ now' = (DateNow + d) \div 1000
    /\ msec' = (DateNow + d) % 1000
    /\ ticks' = ticks + 1
    /\ UNCHANGED <<users, req>>
    /\ UNCHANGED <<env, preq, revoked>>
    /\ UNCHANGED cvars

(***************************************************************************)
(* POST /api/auth/register                                                 *)
(***************************************************************************)
\* User.findOne({$or: [{email: email.toLowerCase()}, {username}]})
RegisterExistingByUsername(bd) ==
    {u \in UserIds : users[u].exists /\ users[u].username = bd.username}
RegisterExisting(bd) ==
    {u \in UserIds : /\ users[u].exists
                     /\ \/ users[u].email = toLowerCase(bd.email)
                        \/ users[u].username = bd.username}

\* the route's validators, the handler's own checks and its lookup of an
\* existing user; User.create is awaited next
RegisterUser(r, bd) ==
    /\ CanStart(r)
    /\ LET q == Begin(r, "register", NoToken, NoToken, bd) IN
       IF bd.username = "" \/ bd.email = "" \/ bd.password \in Short
       THEN req' = [req EXCEPT ![r] = [q EXCEPT !.pc = "done", !.status = 422]]
       ELSE IF RegisterExisting(bd) # {}
       THEN req' = [req EXCEPT ![r] = [q EXCEPT !.pc = "done", !.status = 409,
                   !.message = "User with this email or username already exists"]]
       ELSE req' = [req EXCEPT ![r] = [q EXCEPT !.pc = "create"]]
    /\ UNCHANGED <<now, msec, ticks, users>>
    /\ UNCHANGED <<env, preq, revoked>>
    /\ UNCHANGED cvars

FreeIds == {u \in UserIds : ~users[u].exists}

\* User.create: the unique indexes on username and email reject a duplicate
\* (the handler's catch answers 500); the pre-save hook hashes the password;
\* then both tokens are signed and user.save() is awaited
RegisterCreate(r) ==
    /\ req[r].op = "register" /\ req[r].pc = "create"
    /\ LET bd == req[r].body IN
       IF RegisterExisting(bd) # {} \/ FreeIds = {}
       THEN /\ Respond(r, 500, NoToken, NoToken)
            /\ UNCHANGED users
       ELSE LET id == CHOOSE u \in FreeIds : \A v \in FreeIds : u <= v IN
            /\ users' = [users EXCEPT ![id] =
                   [exists |-> TRUE, username |-> bd.username,
                    email |-> toLowerCase(bd.email), password |-> Hash(bd.password),
                    refreshToken |-> NoToken, storedNull |-> TRUE,
                    resetPasswordToken |-> <<>>, resetPasswordExpires |-> 0]]
            /\ req' = [req EXCEPT ![r].pc = "save", ![r].uid = id,
                                  ![r].loaded = NoToken,
                                  ![r].newAccess = signAccess(id, now),
                                  ![r].newRefresh = signRefresh(id, now)]
    /\ UNCHANGED <<now, msec, ticks>>
    /\ UNCHANGED <<env, preq, revoked>>
    /\ UNCHANGED cvars

\* user.save() writes the modified path refreshToken; cookie and 201
RegisterSave(r) ==
    /\ req[r].op = "register" /\ req[r].pc = "save"
    /\ users' = save(r)
    /\ Respond(r, 201, req[r].newRefresh, req[r].newAccess)
    /\ UNCHANGED <<now, msec, ticks>>
    /\ UNCHANGED <<env, preq, revoked>>
    /\ UNCHANGED cvars

(***************************************************************************)
(* POST /api/auth/login                                                    *)
(***************************************************************************)
\* User.findOne({$or: [{email: identifier.toLowerCase()}, {username: identifier}]})
LoginMatches(bd) ==
    {u \in UserIds : /\ users[u].exists
                     /\ \/ users[u].email = toLowerCase(bd.identifier)
                        \/ users[u].username = bd.identifier}

\* res.status(401).json({message: "Invalid credentials"}), written out twice
\* in the handler: after the lookup (found = FALSE) and after bcrypt.compare
LoginRejectionTelling(found) ==
    IF found THEN [status |-> 401, message |-> "Invalid credentials"]
    ELSE [status |-> 404, message |-> "User not found"]
LoginRejection(found) == [status |-> 401, message |-> "Invalid credentials"]

\* validation and the lookup: User.findOne(...).select("+password") has
\* answered; bcrypt.compare is awaited next
LoginUser(r, bd) ==
    /\ CanStart(r)
    /\ LET q == Begin(r, "login", NoToken, NoToken, bd)
           m == LoginMatches(bd) IN
       IF bd.identifier = "" \/ bd.password = ""
       THEN req' = [req EXCEPT ![r] = [q EXCEPT !.pc = "done", !.status = 422]]
       ELSE IF m = {}
       THEN req' = [req EXCEPT ![r] = [q EXCEPT !.pc = "done",
                       !.status = LoginRejection(FALSE).status,
                       !.message = LoginRejection(FALSE).message]]
       ELSE LET id == CHOOSE u \in m : \A v \in m : u <= v IN
            req' = [req EXCEPT ![r] = [q EXCEPT !.pc = "compare", !.uid = id,
                                    !.loaded = users[id].refreshToken,
                                    !.hash = users[id].password]]
    /\ UNCHANGED <<now, msec, ticks, users>>
    /\ UNCHANGED <<env, preq, revoked>>
    /\ UNCHANGED cvars

\* bcrypt.compare(password, user.password) has answered: 401 on a mismatch,
\* else both tokens are signed at the clock of this moment and user.save()
\* is awaited next
LoginCompare(r) ==
    /\ req[r].op = "login" /\ req[r].pc = "compare"
    /\ IF ~bcryptCompare(req[r].body.password, req[r].hash)
       THEN req' = [req EXCEPT ![r].pc = "done",
                               ![r].status = LoginRejection(TRUE).status,
                               ![r].message = LoginRejection(TRUE).message]
       ELSE req' = [req EXCEPT ![r].pc = "save",
                               ![r].newAccess = signAccess(req[r].uid, now),
                               ![r].newRefresh = signRefresh(req[r].uid, now)]
    /\ UNCHANGED <<now, msec, ticks, users>>
    /\ UNCHANGED <<env, preq, revoked>>
    /\ UNCHANGED cvars

\* user.save() writes the new refresh token over the stored one
LoginSave(r) ==
    /\ req[r].op = "login" /\ req[r].pc = "save"
    /\ users' = save(r)
    /\ revoked' = [revoked EXCEPT ![req[r].uid] = NoToken]
    /\ Respond(r, 200, req[r].newRefresh, req[r].newAccess)
    /\ UNCHANGED <<now, msec, ticks>>
    /\ UNCHANGED <<env, preq>>
    /\ UNCHANGED cvars

(***************************************************************************)
(* POST /api/auth/refresh                                                  *)
(***************************************************************************)
\* const token = req.cookies?.rt
RefreshPresentedAny(ck, hd) == IF ck # NoToken THEN ck ELSE hd
RefreshPresented(ck, hd) == ck

\* if (!user || user.refreshToken !== token) return 401
RefreshAcceptsAnyStored(user, token) == user.exists
RefreshAccepts(user, token) == user.exists /\ user.refreshToken = token

\* const token = req.cookies?.rt; if (!token) 401; jwt.verify(token,
\* REFRESH_SECRET): "none" without a cookie, "invalid" when jwt.verify
\* throws, "verified" otherwise
RefreshVerify(ck, hd) ==
    LET token == RefreshPresented(ck, hd) IN
    IF token = NoToken THEN "none"
    ELSE IF ~JwtVerify(token, REFRESH_SECRET, now) THEN "invalid"
    ELSE "verified"

\* the outcome of a refresh that runs from its arrival to its await of
\* user.save() with nothing in between: "none", "invalid", "mismatch" when
\* the user is missing or holds another token, "ok" otherwise
RefreshCheck(ck, hd) ==
    LET token == RefreshPresented(ck, hd) IN
    IF RefreshVerify(ck, hd) # "verified" THEN RefreshVerify(ck, hd)
    ELSE IF ~RefreshAccepts(users[token.id], token) THEN "mismatch"
    ELSE "ok"

\* catch (jwtError) { res.clearCookie("rt", rtCookie); return 401 }: the
\* Set-Cookie header of a 401 answer. Only the rejection by jwt.verify
\* clears the cookie; the two other 401 answers set no cookie
RefreshRejectCookieKept(c) == NoToken
RefreshRejectCookie(c) == IF c = "invalid" THEN ClearedCookie ELSE NoToken

\* the cookie is read and verified at the clock of the arrival;
\* User.findById(payload.id) is awaited next
RefreshToken(r, ck, hd) ==
    /\ CanStart(r)
    /\ LET q == Begin(r, "refresh", ck, hd, NoBody)
           token == RefreshPresented(ck, hd)
           c == RefreshVerify(ck, hd) IN
       IF c # "verified"
       THEN req' = [req EXCEPT ![r] = [q EXCEPT !.pc = "done", !.status = 401,
                                                !.setCookie = RefreshRejectCookie(c)]]
       ELSE req' = [req EXCEPT ![r] = [q EXCEPT !.pc = "lookup", !.uid = token.id]]
    /\ UNCHANGED <<now, msec, ticks, users>>
    /\ UNCHANGED <<env, preq, revoked>>
    /\ UNCHANGED cvars

\* User.findById has answered: the user is compared with the cookie, both
\* tokens are signed at the clock of this moment; user.save() is awaited next
RefreshLookup(r) ==
    /\ req[r].op = "refresh" /\ req[r].pc = "lookup"
    /\ LET token == RefreshPresented(req[r].cookie, req[r].hdr) IN
       IF ~RefreshAccepts(users[token.id], token)
       THEN req' = [req EXCEPT ![r].pc = "done", ![r].status = 401,
                               ![r].setCookie = RefreshRejectCookie("mismatch")]
       ELSE req' = [req EXCEPT ![r].pc = "save",
                               ![r].loaded = users[token.id].refreshToken,
                               ![r].newAccess = signAccess(token.id, now),
                               ![r].newRefresh = signRefresh(token.id, now)]
    /\ UNCHANGED <<now, msec, ticks, users>>
    /\ UNCHANGED <<env, preq, revoked>>
    /\ UNCHANGED cvars

\* user.save() writes the rotated token, whatever the record holds by now
RefreshSave(r) ==
    /\ req[r].op = "refresh" /\ req[r].pc = "save"
    /\ users' = save(r)
    /\ Respond(r, 200, req[r].newRefresh, req[r].newAccess)
    /\ UNCHANGED <<now, msec, ticks>>
    /\ UNCHANGED <<env, preq, revoked>>
    /\ UNCHANGED cvars

(***************************************************************************)
(* POST /api/auth/logout                                                   *)
(***************************************************************************)
\* an rt cookie that is no JWT at all: jwt.decode answers null
GarbageCookie == [secret |-> "garbage", id |-> 0, iat |-> 0, exp |-> 0]

\* if (token) { const decoded = jwt.decode(token); if (decoded?.id) ... }:
\* the id of the document the handler goes on to update, 0 when it does not.
\* jwt.decode reads the payload and checks neither signature nor expiry
LogoutTargetDefaultUser(ck) == IF ck = NoToken THEN 1 ELSE ck.id
LogoutTarget(ck) == IF ck = NoToken THEN 0 ELSE ck.id

\* the cookie is read and decoded; without a target the cookie is cleared and
\* the handler answers, otherwise User.findByIdAndUpdate is awaited next
LogoutUser(r, ck) ==
    /\ CanStart(r)
    /\ LET q == Begin(r, "logout", ck, NoToken, NoBody) IN
       IF LogoutTarget(ck) = 0
       THEN req' = [req EXCEPT ![r] = [q EXCEPT !.pc = "done", !.status = 200,
                                                !.message = "Logout successful",
                                                !.setCookie = ClearedCookie]]
       ELSE req' = [req EXCEPT ![r] = [q EXCEPT !.pc = "update",
                                                !.uid = LogoutTarget(ck)]]
    /\ UNCHANGED <<now, msec, ticks, users>>
    /\ UNCHANGED <<env, preq, revoked>>
    /\ UNCHANGED cvars

\* catch {} around the update: whether or not the write has thrown, the
\* handler clears the cookie and answers 200
LogoutAnswer(thrown) == 200

\* User.findByIdAndUpdate(decoded.id, ...): the document is found by the id
\* of the decoded cookie alone; the filter does not name the stored token and
\* the cookie was never verified
LogoutWritesOnlyIfStored(user, ck) == user.exists /\ user.refreshToken = ck
LogoutWrites(user, ck) == user.exists

\* User.findByIdAndUpdate(decoded.id, {$unset: {refreshToken: 1}}), which
\* either writes or throws (thrown), and the answer
LogoutUpdate(r, thrown) ==
    /\ req[r].op = "logout" /\ req[r].pc = "update"
    /\ LET u == req[r].uid
           written == ~thrown /\ LogoutWrites(users[u], req[r].cookie) IN
       /\ users' = IF written THEN [users EXCEPT ![u].refreshToken = NoToken,
                                                 ![u].storedNull = FALSE]
                   ELSE users
       /\ revoked' = IF written /\ users[u].refreshToken # NoToken
                     THEN [revoked EXCEPT ![u] = users[u].refreshToken]
                     ELSE revoked
    /\ req' = [req EXCEPT ![r].pc = "done", ![r].status = LogoutAnswer(thrown),
                          ![r].message = IF LogoutAnswer(thrown) = 200
                                         THEN "Logout successful" ELSE "Server error",
                          ![r].setCookie = IF LogoutAnswer(thrown) = 200
                                           THEN ClearedCookie ELSE NoToken,
                          ![r].thrown = thrown]
    /\ UNCHANGED <<now, msec, ticks>>
    /\ UNCHANGED <<env, preq>>
    /\ UNCHANGED cvars

(***************************************************************************)
(* POST /api/auth/forgot-password and POST /api/auth/reset-password/:token *)
(***************************************************************************)
\* crypto.createHash("sha256").update(token).digest("hex")
sha256(token) == <<"sha256", token>>

ForgotEmails == {"A@x.com", "nobody@x.com", ""}

\* User.findOne({email: email.toLowerCase().trim()})
ForgotMatches(email) ==
    {u \in UserIds : users[u].exists /\ users[u].email = toLowerCase(email)}

\* the validator, the lookup, crypto.randomBytes (the reset token of request r
\* is r: no two requests draw the same) and the expiry; user.save() is
\* awaited next
ForgotPassword(r, email) ==
    /\ CanStart(r)
    /\ LET q == Begin(r, "forgot", NoToken, NoToken, [NoBody EXCEPT !.email = email])
           m == ForgotMatches(email) IN
       IF email = ""
       THEN req' = [req EXCEPT ![r] = [q EXCEPT !.pc = "done", !.status = 422]]
       ELSE IF m = {}
       THEN req' = [req EXCEPT ![r] = [q EXCEPT !.pc = "done", !.status = 200]]
       ELSE LET id == CHOOSE u \in m : \A v \in m : u <= v IN
            req' = [req EXCEPT ![r] = [q EXCEPT !.pc = "save", !.uid = id,
                                    !.loadedExpires = users[id].resetPasswordExpires,
                                    !.reset = r, !.expires = DateNow + RESET_TTL]]
    /\ UNCHANGED <<now, msec, ticks, users>>
    /\ UNCHANGED <<env, preq, revoked>>
    /\ UNCHANGED cvars

\* user.resetPasswordExpires = Date.now() + 10 * 60 * 1000: the path is
\* modified, and written by save(), only when the date differs from the one
\* the document was loaded with
forgotSaveWritesExpires(r) == req[r].expires # req[r].loadedExpires

\* user.save() writes the modified paths: the hashed reset token, which no
\* document was loaded with (it was drawn after the load), and the expiry if
\* it differs from the loaded one; without a transporter the handler answers
\* 500 now, else transporter.sendMail is awaited next
ForgotSave(r) ==
    /\ req[r].op = "forgot" /\ req[r].pc = "save"
    /\ users' = [users EXCEPT ![req[r].uid].resetPasswordToken = sha256(req[r].reset),
                              ![req[r].uid].resetPasswordExpires =
                                  IF forgotSaveWritesExpires(r) THEN req[r].expires ELSE @]
    /\ IF transporter
       THEN req' = [req EXCEPT ![r].pc = "mail"]
       ELSE req' = [req EXCEPT ![r].pc = "done", ![r].status = 500,
                               ![r].message = "Email service not available"]
    /\ UNCHANGED <<now, msec, ticks>>
    /\ UNCHANGED <<env, preq, revoked>>
    /\ UNCHANGED cvars

\* the message of the error a failing transporter.sendMail throws
SendMailError == "SMTP failure"

\* transporter.sendMail has answered: the mail with the reset token has left
\* and the handler answers 200, or sendMail has thrown (failed) and the
\* catch block answers 500 through handleError
ForgotMail(r, failed) ==
    /\ req[r].op = "forgot" /\ req[r].pc = "mail"
    /\ req' = [req EXCEPT ![r].pc = "done",
                          ![r].status = IF failed THEN 500 ELSE 200,
                          ![r].message = IF failed THEN handleError(SendMailError)
                                         ELSE "Password reset link sent to your email",
                          ![r].thrown = failed,
                          ![r].mailed = ~failed]
    /\ UNCHANGED <<now, msec, ticks, users>>
    /\ UNCHANGED <<env, preq, revoked>>
    /\ UNCHANGED cvars

\* the reset tokens that were mailed
MailedResets == {req[r].reset : r \in {q \in DoneReqs : req[q].mailed}}

ResetPasswords == {"secret3", "pw"}

\* User.findOne({resetPasswordToken: hashedToken, resetPasswordExpires:
\* {$gt: Date.now()}}): the filter holds the Date.now() of the moment it was
\* built (at); the collection is read when the query is executed
ResetMatches(token, at) ==
    {u \in UserIds : /\ users[u].exists
                     /\ users[u].resetPasswordToken = sha256(token)
                     /\ users[u].resetPasswordExpires > at}

\* the validator, the hash of the token and the filter with Date.now();
\* User.findOne is awaited next
ResetPassword(r, token, password) ==
    /\ CanStart(r)
    /\ LET q == [Begin(r, "reset", NoToken, NoToken, [NoBody EXCEPT !.password = password])
                   EXCEPT !.reset = token] IN
       IF password \in Short
       THEN req' = [req EXCEPT ![r] = [q EXCEPT !.pc = "done", !.status = 422]]
       ELSE req' = [req EXCEPT ![r] = [q EXCEPT !.pc = "lookup", !.at = DateNow]]
    /\ UNCHANGED <<now, msec, ticks, users>>
    /\ UNCHANGED <<env, preq, revoked>>
    /\ UNCHANGED cvars

\* User.findOne has answered: 400 without a user, else the new password is
\* set and the three fields are set to undefined; user.save() is awaited next
ResetLookup(r) ==
    /\ req[r].op = "reset" /\ req[r].pc = "lookup"
    /\ LET m == ResetMatches(req[r].reset, req[r].at) IN
       IF m = {}
       THEN req' = [req EXCEPT ![r].pc = "done", ![r].status = 400,
                               ![r].message = "Reset token is invalid or has expired"]
       ELSE LET id == CHOOSE u \in m : \A v \in m : u <= v IN
            req' = [req EXCEPT ![r].pc = "save", ![r].uid = id,
                               ![r].loaded = users[id].refreshToken,
                               ![r].loadedNull = users[id].storedNull]
    /\ UNCHANGED <<now, msec, ticks, users>>
    /\ UNCHANGED <<env, preq, revoked>>
    /\ UNCHANGED cvars

\* user.refreshToken = undefined; await user.save(): a path the document was
\* loaded without holds the schema default, which undefined does not modify,
\* and is not written; a path loaded with a token or with a stored null is
\* modified and unset, whatever the record holds by now
resetSaveUnsets(r) == req[r].loaded # NoToken \/ req[r].loadedNull

\* user.save(): the pre-save hook hashes the new password; the reset fields,
\* which the filter found set, are unset, and so is refreshToken if the
\* document was loaded with the path
ResetSave(r) ==
    /\ req[r].op = "reset" /\ req[r].pc = "save"
    /\ LET u == req[r].uid
           unset == resetSaveUnsets(r) IN
       /\ users' = [users EXCEPT ![u].password = Hash(req[r].body.password),
                                 ![u].resetPasswordToken = <<>>,
                                 ![u].resetPasswordExpires = 0,
                                 ![u].refreshToken = IF unset THEN NoToken ELSE @,
                                 ![u].storedNull = IF unset THEN FALSE ELSE @]
       /\ revoked' = IF unset /\ users[u].refreshToken # NoToken
                     THEN [revoked EXCEPT ![u] = users[u].refreshToken]
                     ELSE revoked
    /\ req' = [req EXCEPT ![r].pc = "done", ![r].status = 200,
                          ![r].message = "Password reset successful"]
    /\ UNCHANGED <<now, msec, ticks>>
    /\ UNCHANGED <<env, preq>>
    /\ UNCHANGED cvars

(***************************************************************************)
(* The protected routes: server/middleware/auth.js in front of the snippet *)
(* handlers of server/routes/snippets.js.                                  *)
(***************************************************************************)
\* process.env.JWT_SECRET || "dev_access"
AuthSecret == IF env.JWT_SECRET = Unset THEN "dev_access" ELSE env.JWT_SECRET

\* header.startsWith("Bearer ") ? header.slice(7) : null
BearerTokenAnyScheme(header) == header.token
BearerToken(header) == IF header.scheme = "Bearer" THEN header.token ELSE NoToken

\* function auth(req, res, next): what it answers, what it attaches to the
\* request and whether it calls next()
auth(header) ==
    LET token == BearerToken(header) IN
    IF token = NoToken
    THEN [status |-> 401, message |-> "No token", userId |-> 0, next |-> FALSE]
    ELSE IF JwtVerify(token, AuthSecret, now)
    THEN [status |-> 0, message |-> "", userId |-> token.id, next |-> TRUE]
    ELSE [status |-> 401, message |-> "Invalid token", userId |-> 0, next |-> FALSE]

\* every access token the server has handed out so far
IssuedAccess == {req[r].token : r \in DoneReqs} \ {NoToken}

Bearer(token) == [scheme |-> "Bearer", token |-> token]

\* the Authorization headers a client can send
ProtectedHeaders ==
    {Bearer(t) : t \in IssuedAccess \cup IssuedRefresh \cup ForgedTokens \cup {NoToken}}
    \cup {[scheme |-> "Basic", token |-> t] : t \in IssuedAccess}
    \cup {NoHeader}

\* a request to a protected route passes the middleware
Protected(header) ==
    /\ LET a == auth(header) IN
       preq' = [header |-> header, status |-> a.status, message |-> a.message,
                userId |-> a.userId, next |-> a.next,
                live |-> /\ header.token.id \in UserIds
                         /\ users[header.token.id].refreshToken # NoToken]
    /\ UNCHANGED <<now, msec, ticks, users, req, env, revoked>>
    /\ UNCHANGED cvars


(***************************************************************************)
(* The client session agent: client/src/lib/api.js.                        *)
(*                                                                         *)
(* Every browser tab loads the module once and so has its own isRefreshing *)
(* and waitQueue and its own axios defaults; localStorage is shared by the *)
(* tabs. An access token is an opaque string to the client: token 1 is the *)
(* one held at the start, the k-th call of the refresh endpoint answers    *)
(* with token k+1, and 0 stands for no token. The server is the            *)
(* environment here: it may answer any request with any status.            *)
(***************************************************************************)
Tabs == {1, 2}
CReqs == 1..MaxCReqs
TabOf(c) == IF c % 2 = 1 THEN 1 ELSE 2

\* a request made through api: where it stands (pc), config._retry, how often
\* it was sent and with which token, the refresh it waits for, and who made
\* it (caller): a component, or a routine of the application that awaits the
\* answer and has or has not gone on after it (returned)
IdleCReq == [pc |-> "idle", retry |-> FALSE, sends |-> 0, firstBearer |-> 0,
             bearer |-> 0, cycle |-> 0, why |-> "none", newToken |-> 0,
             caller |-> "none", returned |-> FALSE]

ClientInit ==
    /\ creq = [c \in CReqs |-> IdleCReq]
    /\ isRefreshing = [t \in Tabs |-> FALSE]
    /\ waitQueue = [t \in Tabs |-> <<>>]
    /\ lsToken = 1
    /\ lsUser = TRUE
    /\ defaultAuth = [t \in Tabs |-> 1]
    /\ location = [t \in Tabs |-> "/dashboard"]
    /\ navToken = [t \in Tabs |-> -1]
    /\ calls = <<>>
    /\ authState = [t \in Tabs |-> [token |-> 1, effect |-> FALSE]]

\* api.interceptors.request.use: the token of localStorage if there is one,
\* else whatever header the request already has
AttachToken(stored, header) == IF stored # 0 THEN stored ELSE header

\* original._retry = true
MarkRetryForgotten(q) == q
MarkRetry(q) == [q EXCEPT !.retry = TRUE]

\* location.pathname of the three addresses of the model
Pathname(loc) == IF loc = "/login?reason=expired" THEN "/login" ELSE loc

Range(q) == {q[i] : i \in 1..Len(q)}

\* the calls of tab t that a routine of the application awaits and that
\* have returned or thrown, the routine not having gone on yet
Awaited(t, who) ==
    {c \in CReqs : /\ TabOf(c) = t /\ creq[c].caller = who
                   /\ creq[c].pc \in {"ok", "failed"} /\ ~creq[c].returned}

\* the event loop of a tab runs the continuations that a settled promise
\* has woken before it takes up anything else: a tab with a woken request,
\* or with a routine whose awaited call has settled, starts no other step
Settled(t) ==
    /\ \A c \in CReqs : TabOf(c) = t => creq[c].pc # "woken"
    /\ \A who \in {"logout", "doLogout", "login", "refreshToken"} : Awaited(t, who) = {}

\* api.post / api.get: the request interceptor attaches the Authorization
\* header and the request leaves
Call(t, who) ==
    LET b == AttachToken(lsToken, defaultAuth[t]) IN
    [IdleCReq EXCEPT !.pc = "inflight", !.sends = 1, !.firstBearer = b, !.bearer = b,
                     !.caller = who]

\* the requests of tab t that have not been made yet, and the next of them
FreeSlots(t) == {c \in CReqs : TabOf(c) = t /\ creq[c].pc = "idle"}
NextSlot(t) == CHOOSE c \in FreeSlots(t) : \A d \in FreeSlots(t) : c <= d

\* the refresh call of tab t that has not been answered yet (0: none)
PendingCall(t) ==
    IF \E k \in 1..Len(calls) : calls[k].tab = t /\ calls[k].result = "pending"
    THEN CHOOSE k \in 1..Len(calls) : calls[k].tab = t /\ calls[k].result = "pending"
    ELSE 0

\* a component calls api.get / api.post: the request interceptor attaches
\* the Authorization header and the request leaves
Send(c) ==
    /\ creq[c].pc = "idle"
    /\ Settled(TabOf(c))
    /\ creq' = [creq EXCEPT ![c] = Call(TabOf(c), "component")]
    /\ UNCHANGED <<isRefreshing, waitQueue, lsToken, lsUser, defaultAuth, location,
                   navToken, calls>>
    /\ UNCHANGED authState
    /\ UNCHANGED svars

\* (res) => res
ResponseOk(c) ==
    /\ creq[c].pc = "inflight"
    /\ Settled(TabOf(c))
    /\ creq' = [creq EXCEPT ![c].pc = "ok"]
    /\ UNCHANGED <<isRefreshing, waitQueue, lsToken, lsUser, defaultAuth, location,
                   navToken, calls>>
    /\ UNCHANGED authState
    /\ UNCHANGED svars

\* async (error) => ...: the error handler of the response interceptor, up to
\* its first await
ResponseError(c, status) ==
    /\ creq[c].pc = "inflight"
    /\ Settled(TabOf(c))
    /\ LET t == TabOf(c) IN
       IF creq[c].retry
       THEN /\ creq' = [creq EXCEPT ![c].pc = "failed", ![c].why = "retried"]
            /\ UNCHANGED <<isRefreshing, waitQueue, calls>>
       ELSE IF status # 401
       THEN /\ creq' = [creq EXCEPT ![c].pc = "failed", ![c].why = "status"]
            /\ UNCHANGED <<isRefreshing, waitQueue, calls>>
       ELSE IF ~isRefreshing[t]
       THEN /\ isRefreshing' = [isRefreshing EXCEPT ![t] = TRUE]
            /\ calls' = Append(calls, [tab |-> t, trigger |-> c, result |-> "pending"])
            /\ creq' = [creq EXCEPT ![c] = [MarkRetry(creq[c]) EXCEPT
                                               !.pc = "refreshing",
                                               !.cycle = Len(calls) + 1]]
            /\ UNCHANGED waitQueue
       ELSE /\ waitQueue' = [waitQueue EXCEPT ![t] = Append(@, c)]
            /\ creq' = [creq EXCEPT ![c] = [MarkRetry(creq[c]) EXCEPT
                                               !.pc = "queued",
                                               !.cycle = PendingCall(t)]]
            /\ UNCHANGED <<isRefreshing, calls>>
    /\ UNCHANGED <<lsToken, lsUser, defaultAuth, location, navToken>>
    /\ UNCHANGED authState
    /\ UNCHANGED svars

\* resolveQueue(newToken): the promise of every continuation in the queue
\* is resolved with the new token; the continuations run afterwards
resolveQueue(cr, q, newToken) ==
    [c \in CReqs |->
        IF c \in Range(q)
        THEN [cr[c] EXCEPT !.pc = "woken", !.newToken = newToken]
        ELSE cr[c]]

\* rejectQueue(e): every continuation in the queue rejects its request
rejectQueueSkipsFirst(cr, q) ==
    [c \in CReqs |->
        IF c \in Range(q) /\ c # q[1]
        THEN [cr[c] EXCEPT !.pc = "failed", !.why = "refresh"]
        ELSE cr[c]]
rejectQueue(cr, q) ==
    [c \in CReqs |->
        IF c \in Range(q)
        THEN [cr[c] EXCEPT !.pc = "failed", !.why = "refresh"]
        ELSE cr[c]]

\* isRefreshing = false, on line 90 after setAuthToken and on line 93 as the
\* first statement of the catch block
EndRefreshOmitted(flags, t) == flags
EndRefresh(flags, t) == [flags EXCEPT ![t] = FALSE]

\* the refresh call of tab t is answered 2xx with a token: setAuthToken,
\* isRefreshing = false, resolveQueue; then the request that had started the
\* refresh goes on to the code after the if and puts its own continuation
\* into the emptied queue, where the handler yields
RefreshSucceeds(t) ==
    /\ PendingCall(t) # 0
    /\ Settled(t)
    /\ LET k == PendingCall(t)
           c == calls[k].trigger
           newToken == k + 1
           woken == resolveQueue(creq, waitQueue[t], newToken) IN
       /\ lsToken' = newToken
       /\ defaultAuth' = [defaultAuth EXCEPT ![t] = newToken]
       /\ isRefreshing' = EndRefresh(isRefreshing, t)
       /\ calls' = [calls EXCEPT ![k].result = "ok"]
       /\ creq' = [woken EXCEPT ![c].pc = "queued"]
       /\ waitQueue' = [waitQueue EXCEPT ![t] = <<c>>]
    /\ UNCHANGED <<lsUser, location, navToken>>
    /\ UNCHANGED authState
    /\ UNCHANGED svars

\* a woken continuation runs: original.headers.Authorization = `Bearer
\* ${newToken}`; return api(original), whose request interceptor attaches
\* the token that localStorage holds at this moment
Replay(c) ==
    /\ creq[c].pc = "woken"
    /\ creq' = [creq EXCEPT ![c].pc = "inflight", ![c].sends = @ + 1,
                            ![c].bearer = AttachToken(lsToken, creq[c].newToken)]
    /\ UNCHANGED <<isRefreshing, waitQueue, lsToken, lsUser, defaultAuth, location,
                   navToken, calls>>
    /\ UNCHANGED authState
    /\ UNCHANGED svars

\* refreshClient = axios.create(...) has no response interceptor: an error
\* answer to the refresh call is thrown into the catch block as it is, and the
\* list of refresh calls stays as it was
refreshClientIntercepted(cs, t, c) ==
    Append(cs, [tab |-> t, trigger |-> c, result |-> "pending"])
refreshClient(cs, t, c) == cs

\* the refresh call of tab t fails, or is answered without a token (which
\* throws): isRefreshing = false, rejectQueue, clearAuth, the move to the
\* login view unless the tab shows it already, and the rejection of the
\* request that had started the refresh
RefreshFails(t, answer) ==
    /\ PendingCall(t) # 0
    /\ Settled(t)
    /\ LET k == PendingCall(t)
           c == calls[k].trigger
           rejected == rejectQueue(creq, waitQueue[t]) IN
       /\ isRefreshing' = EndRefresh(isRefreshing, t)
       /\ waitQueue' = [waitQueue EXCEPT ![t] = <<>>]
       /\ calls' = refreshClient([calls EXCEPT ![k].result = answer], t, c)
       /\ defaultAuth' = [defaultAuth EXCEPT ![t] = 0]
       /\ lsToken' = 0
       /\ lsUser' = FALSE
       /\ IF Pathname(location[t]) # "/login"
          THEN /\ location' = [location EXCEPT ![t] = "/login?reason=expired"]
               /\ navToken' = [navToken EXCEPT ![t] = lsToken']
          ELSE UNCHANGED <<location, navToken>>
       /\ creq' = [rejected EXCEPT ![c].pc = "failed", ![c].why = "refresh"]
    /\ UNCHANGED authState
    /\ UNCHANGED svars

\* the user opens the login view in a tab
OpenLogin(t) ==
    /\ location[t] = "/dashboard"
    /\ Settled(t)
    /\ location' = [location EXCEPT ![t] = "/login"]
    /\ UNCHANGED <<creq, isRefreshing, waitQueue, lsToken, lsUser, defaultAuth,
                   navToken, calls>>
    /\ UNCHANGED authState
    /\ UNCHANGED svars

(***************************************************************************)
(* The session routines of the application: AuthProvider of                *)
(* client/src/context/AuthContext.jsx, utils/auth.js and hooks/useAuth.js. *)
(* Their calls go through api and so through its interceptors. The state   *)
(* token of AuthProvider is authState[t].token (0: ""), and effect tells   *)
(* that its useEffect is due.                                              *)
(***************************************************************************)
\* setToken(v): the effect that depends on token is due when the value changed
setToken(st, v) == [token |-> v, effect |-> st.effect \/ v # st.token]

\* function setTokenHeader(token): the Authorization default is set, or
\* deleted when there is no token
setTokenHeader(headers, t, token) == [headers EXCEPT ![t] = token]

\* useEffect(() => { setTokenHeader(token) }, [token])
TokenEffect(t) ==
    /\ authState[t].effect
    /\ Settled(t)
    /\ defaultAuth' = setTokenHeader(defaultAuth, t, authState[t].token)
    /\ authState' = [authState EXCEPT ![t].effect = FALSE]
    /\ UNCHANGED <<creq, isRefreshing, waitQueue, lsToken, lsUser, location,
                   navToken, calls>>
    /\ UNCHANGED svars

\* logout of AuthContext.jsx: setIsLoading(true); await api.post("/api/auth/logout").
\* Nothing keeps the routine from being called again while a call of it is
\* waiting for its answer: every call of it posts
Logout(t) ==
    /\ Settled(t)
    /\ FreeSlots(t) # {}
    /\ creq' = [creq EXCEPT ![NextSlot(t)] = Call(t, "logout")]
    /\ UNCHANGED <<isRefreshing, waitQueue, lsToken, lsUser, defaultAuth,
                   location, navToken, calls, authState>>
    /\ UNCHANGED svars

\* try { await ... } catch (err) { console.error(...) }: what the routine
\* goes on with when the call has thrown. The catch block only logs
AfterLogoutCall(failed) == "clear"

\* the awaited call has returned, or thrown out of the interceptors; then
\* the token and the user are removed from localStorage, the state and the
\* Authorization default are cleared and the tab moves to the login view
\* unless it shows it already
LogoutReturns(t) ==
    /\ \E c \in Awaited(t, "logout") :
         LET failed == creq[c].pc = "failed" IN
         /\ IF AfterLogoutCall(failed) = "clear"
            THEN /\ lsToken' = 0
                 /\ lsUser' = FALSE
                 /\ authState' = [authState EXCEPT ![t] = setToken(@, 0)]
                 /\ defaultAuth' = setTokenHeader(defaultAuth, t, 0)
                 /\ location' = IF Pathname(location[t]) # "/login"
                                THEN [location EXCEPT ![t] = "/login"]
                                ELSE location
            ELSE UNCHANGED <<lsToken, lsUser, authState, defaultAuth, location>>
         /\ creq' = [creq EXCEPT ![c].returned = TRUE]
    /\ UNCHANGED <<isRefreshing, waitQueue, navToken, calls>>
    /\ UNCHANGED svars

\* doLogout of utils/auth.js, the one the dashboard calls:
\* await api.post("/api/auth/logout")
doLogout(t) ==
    /\ Settled(t)
    /\ FreeSlots(t) # {}
    /\ creq' = [creq EXCEPT ![NextSlot(t)] = Call(t, "doLogout")]
    /\ UNCHANGED <<isRefreshing, waitQueue, lsToken, lsUser, defaultAuth,
                   location, navToken, calls, authState>>
    /\ UNCHANGED svars

\* the call has returned or thrown (the catch block only warns): token and
\* user are removed from localStorage and the tab moves to the login view;
\* the Authorization default stays
doLogoutReturns(t) ==
    /\ \E c \in Awaited(t, "doLogout") :
         creq' = [creq EXCEPT ![c].returned = TRUE]
    /\ lsToken' = 0
    /\ lsUser' = FALSE
    /\ location' = [location EXCEPT ![t] = "/login"]
    /\ UNCHANGED <<isRefreshing, waitQueue, defaultAuth, navToken, calls,
                   authState>>
    /\ UNCHANGED svars

\* logout of hooks/useAuth.js: the token is removed, the user is not, and
\* the tab moves to the login view; the server is not called
useAuthLogout(t) ==
    /\ Settled(t)
    /\ lsToken' = 0
    /\ location' = [location EXCEPT ![t] = "/login"]
    /\ UNCHANGED <<creq, isRefreshing, waitQueue, lsUser, defaultAuth,
                   navToken, calls, authState>>
    /\ UNCHANGED svars

\* the access token of the answer to the login call c, and to the call c of
\* the refresh endpoint made by refreshToken of AuthContext.jsx
LoginToken(c) == 10 + c
RefreshedToken(c) == 20 + c

\* login of AuthContext.jsx: await api.post("/api/auth/login", ...)
login(t) ==
    /\ Settled(t)
    /\ FreeSlots(t) # {}
    /\ creq' = [creq EXCEPT ![NextSlot(t)] = Call(t, "login")]
    /\ UNCHANGED <<isRefreshing, waitQueue, lsToken, lsUser, defaultAuth,
                   location, navToken, calls, authState>>
    /\ UNCHANGED svars

\* the login call has returned: token and user go into localStorage and
\* into the state; or it has thrown: the catch block only sets the error
loginReturns(t) ==
    /\ \E c \in Awaited(t, "login") :
         /\ creq' = [creq EXCEPT ![c].returned = TRUE]
         /\ IF creq[c].pc = "ok"
            THEN /\ lsToken' = LoginToken(c)
                 /\ lsUser' = TRUE
                 /\ authState' = [authState EXCEPT ![t] = setToken(@, LoginToken(c))]
            ELSE UNCHANGED <<lsToken, lsUser, authState>>
    /\ UNCHANGED <<isRefreshing, waitQueue, defaultAuth, location, navToken,
                   calls>>
    /\ UNCHANGED svars

\* refreshToken of AuthContext.jsx: await api.post("/api/auth/refresh"),
\* a call through api like any other
ctxRefreshToken(t) ==
    /\ Settled(t)
    /\ FreeSlots(t) # {}
    /\ creq' = [creq EXCEPT ![NextSlot(t)] = Call(t, "refreshToken")]
    /\ UNCHANGED <<isRefreshing, waitQueue, lsToken, lsUser, defaultAuth,
                   location, navToken, calls, authState>>
    /\ UNCHANGED svars

\* the call has returned: the token goes into localStorage and into the
\* state; or it has thrown: logout() is called and not awaited, which makes
\* its call of the logout endpoint (while the tab has a request left to make)
ctxRefreshTokenReturns(t) ==
    /\ \E c \in Awaited(t, "refreshToken") :
         IF creq[c].pc = "ok"
         THEN /\ creq' = [creq EXCEPT ![c].returned = TRUE]
              /\ lsToken' = RefreshedToken(c)
              /\ authState' = [authState EXCEPT ![t] = setToken(@, RefreshedToken(c))]
         ELSE /\ FreeSlots(t) # {}
              /\ creq' = [creq EXCEPT ![c].returned = TRUE,
                                      ![NextSlot(t)] = Call(t, "logout")]
              /\ UNCHANGED <<lsToken, authState>>
    /\ UNCHANGED <<isRefreshing, waitQueue, lsUser, defaultAuth, location,
                   navToken, calls>>
    /\ UNCHANGED svars

ClientNext ==
    \/ \E c \in CReqs : Send(c)
    \/ \E c \in CReqs : ResponseOk(c)
    \/ \E c \in CReqs, status \in {401, 500} : ResponseError(c, status)
    \/ \E t \in Tabs : RefreshSucceeds(t)
    \/ \E c \in CReqs : Replay(c)
    \/ \E t \in Tabs, answer \in {"401", "no token"} : RefreshFails(t, answer)
    \/ \E t \in Tabs : OpenLogin(t)

\* the application in two tabs: the requests of its components in both and
\* its session routines in the first, all through api
RoutineTabs == {1}

AppNext ==
    \/ ClientNext
    \/ \E t \in RoutineTabs : TokenEffect(t)
    \/ \E t \in RoutineTabs : Logout(t)
    \/ \E t \in RoutineTabs : LogoutReturns(t)
    \/ \E t \in RoutineTabs : doLogout(t)
    \/ \E t \in RoutineTabs : doLogoutReturns(t)
    \/ \E t \in RoutineTabs : useAuthLogout(t)
    \/ \E t \in RoutineTabs : login(t)
    \/ \E t \in RoutineTabs : loginReturns(t)
    \/ \E t \in RoutineTabs : ctxRefreshToken(t)
    \/ \E t \in RoutineTabs : ctxRefreshTokenReturns(t)

\* the auth endpoints under concurrent requests. No step of these handlers
\* verifies an access token, so the clock moves by a second or by the
\* lifetime of a refresh token; a logout comes with an rt cookie the server
\* has handed out or with none, and its update does not fail (forged and
\* undecodable cookies and a failing update: SpecLogout)
ServerNext ==
    \/ \E d \in {1, REFRESH_TTL} : Tick(d)
    \/ \E r \in Reqs, bd \in RegisterBodies : RegisterUser(r, bd)
    \/ \E r \in Reqs : RegisterCreate(r)
    \/ \E r \in Reqs : RegisterSave(r)
    \/ \E r \in Reqs, bd \in LoginBodies : LoginUser(r, bd)
    \/ \E r \in Reqs : LoginCompare(r)
    \/ \E r \in Reqs : LoginSave(r)
    \/ \E r \in Reqs, ck \in Cookies : \E hd \in Headers(ck) : RefreshToken(r, ck, hd)
    \/ \E r \in Reqs : RefreshLookup(r)
    \/ \E r \in Reqs : RefreshSave(r)
    \/ \E r \in Reqs, ck \in IssuedRefresh \cup {NoToken} : LogoutUser(r, ck)
    \/ \E r \in Reqs : LogoutUpdate(r, FALSE)

\* the protected routes in a deployment of any configuration. The requests
\* to the auth endpoints are those of one well-behaved user and arrive one
\* after the other, each handler finishing before the next request arrives
\* or the clock moves on by the lifetime of an access token; the protected
\* route is sent every header a client can build
Quiet == InFlight = {}

AuthRegisterBodies == {bd \in RegisterBodies : bd.username = "alice"}
AuthLoginBodies == {bd \in LoginBodies : bd.identifier = "alice"}

AuthNext ==
    \/ Quiet /\ Tick(ACCESS_TTL)
    \/ \E r \in Reqs, bd \in AuthRegisterBodies : Quiet /\ RegisterUser(r, bd)
    \/ \E r \in Reqs : RegisterCreate(r)
    \/ \E r \in Reqs : RegisterSave(r)
    \/ \E r \in Reqs, bd \in AuthLoginBodies : Quiet /\ LoginUser(r, bd)
    \/ \E r \in Reqs : LoginCompare(r)
    \/ \E r \in Reqs : LoginSave(r)
    \/ \E r \in Reqs, ck \in IssuedRefresh \cup IssuedAccess :
          Quiet /\ RefreshToken(r, ck, NoToken)
    \/ \E r \in Reqs : RefreshLookup(r)
    \/ \E r \in Reqs : RefreshSave(r)
    \/ \E r \in Reqs, ck \in IssuedRefresh : Quiet /\ LogoutUser(r, ck)
    \/ \E r \in Reqs : LogoutUpdate(r, FALSE)
    \/ \E r \in Reqs : Quiet /\ ForgotPassword(r, "A@x.com")
    \/ \E r \in Reqs : ForgotSave(r)
    \/ \E r \in Reqs, failed \in BOOLEAN : ForgotMail(r, failed)
    \/ \E r \in Reqs, token \in MailedResets : Quiet /\ ResetPassword(r, token, "secret3")
    \/ \E r \in Reqs : ResetLookup(r)
    \/ \E r \in Reqs : ResetSave(r)
    \/ \E header \in ProtectedHeaders : Quiet /\ Protected(header)

\* the requests of two well-behaved users, alice and carol
TwoUserRegisterBodies ==
    AuthRegisterBodies \cup
    { [username |-> "carol", email |-> "c@x.com", identifier |-> "", password |-> "secret3"] }
TwoUserLoginBodies ==
    AuthLoginBodies \cup
    { [username |-> "", email |-> "", identifier |-> "carol", password |-> "secret3"] }

\* logging out, the server: the auth endpoints with every rt cookie a client
\* can send and an update that may throw, the requests of two users arriving
\* one after the other
LogoutServerNext ==
    \/ \E r \in Reqs, bd \in TwoUserRegisterBodies : Quiet /\ RegisterUser(r, bd)
    \/ \E r \in Reqs : RegisterCreate(r)
    \/ \E r \in Reqs : RegisterSave(r)
    \/ \E r \in Reqs, bd \in AuthLoginBodies : Quiet /\ LoginUser(r, bd)
    \/ \E r \in Reqs : LoginCompare(r)
    \/ \E r \in Reqs : LoginSave(r)
    \/ \E r \in Reqs, ck \in Cookies \cup {GarbageCookie} : Quiet /\ LogoutUser(r, ck)
    \/ \E r \in Reqs, thrown \in BOOLEAN : LogoutUpdate(r, thrown)

\* logging out, server and client: the same, and the logout routine of the
\* client in one tab, called as often as the tab has requests to make, whose
\* calls go through the interceptors of api, may be answered 200, 401 or
\* 500 and are sent again when a refresh has woken them
LogoutNext ==
    \/ LogoutServerNext
    \/ \E t \in RoutineTabs : Logout(t)
    \/ \E c \in CReqs : Replay(c)
    \/ \E c \in CReqs : ResponseOk(c)
    \/ \E c \in CReqs, status \in {401, 500} : ResponseError(c, status)
    \/ \E t \in RoutineTabs : RefreshSucceeds(t)
    \/ \E t \in RoutineTabs, answer \in {"401", "no token"} : RefreshFails(t, answer)
    \/ \E t \in RoutineTabs : LogoutReturns(t)
    \/ \E t \in RoutineTabs : TokenEffect(t)

\* the sessions of two users whose requests arrive strictly one after the
\* other: each answer is out before the next request arrives or the clock
\* moves, and every rt cookie presented is one the server has handed out
SessionNext ==
    \/ \E d \in {1, REFRESH_TTL} : Quiet /\ Tick(d)
    \/ \E r \in Reqs, bd \in TwoUserRegisterBodies : Quiet /\ RegisterUser(r, bd)
    \/ \E r \in Reqs : RegisterCreate(r)
    \/ \E r \in Reqs : RegisterSave(r)
    \/ \E r \in Reqs, bd \in TwoUserLoginBodies : Quiet /\ LoginUser(r, bd)
    \/ \E r \in Reqs : LoginCompare(r)
    \/ \E r \in Reqs : LoginSave(r)
    \/ \E r \in Reqs, ck \in IssuedRefresh : Quiet /\ RefreshToken(r, ck, NoToken)
    \/ \E r \in Reqs : RefreshLookup(r)
    \/ \E r \in Reqs : RefreshSave(r)
    \/ \E r \in Reqs, ck \in IssuedRefresh : Quiet /\ LogoutUser(r, ck)
    \/ \E r \in Reqs : LogoutUpdate(r, FALSE)

AuthInit == ServerInit /\ msec = 0 /\ env \in Environments /\ ClientInit

Init == ServerInit /\ msec = 0 /\ env = EnvConfigured /\ ClientInit

Spec == Init /\ [][ServerNext]_vars

SpecClient == Init /\ [][ClientNext]_vars

SpecApp == Init /\ [][AppNext]_vars

SpecAuth == AuthInit /\ [][AuthNext]_vars

SpecLogout == Init /\ [][LogoutNext]_vars

SpecLogoutServer == Init /\ [][LogoutServerNext]_vars

SpecSession == Init /\ [][SessionNext]_vars

\* forgotten passwords: alice is registered when the server starts at a full
\* second or at 0.9 s: with a session, without one after a logout (no
\* refreshToken path), or with the null that User.create stored and that no
\* save has replaced. Requests to forgot-password,
\* reset-password and login arrive while others are in flight, a reset-password
\* with a token that was mailed or with one that was not; the clock moves on
\* by a little less than the life of a reset token or by exactly that
Registered ==
    [exists |-> TRUE, username |-> "alice", email |-> "a@x.com",
     password |-> Hash("secret1"), refreshToken |-> NoToken, storedNull |-> FALSE,
     resetPasswordToken |-> <<>>, resetPasswordExpires |-> 0]

ResetLoginBodies ==
    { [username |-> "", email |-> "", identifier |-> "alice", password |-> pw] :
        pw \in {"secret1", "secret3"} }

ResetInit ==
    /\ env = EnvConfigured
    /\ now = 0 /\ msec \in {0, 900}
    /\ ticks = 0
    /\ \E held \in {NoToken, signRefresh(1, 0)}, null \in BOOLEAN :
          /\ null => held = NoToken
          /\ users = [u \in UserIds |->
                        IF u = 1
                        THEN [Registered EXCEPT !.refreshToken = held, !.storedNull = null]
                        ELSE NoUser]
    /\ req = [r \in Reqs |-> IdleReq]
    /\ preq = IdlePreq
    /\ revoked = [u \in UserIds |-> NoToken]
    /\ ClientInit

ResetNext ==
    \/ \E d \in {RESET_TTL - 800, RESET_TTL} : TickMs(d)
    \/ \E r \in Reqs : ForgotPassword(r, "A@x.com")
    \/ \E r \in Reqs : ForgotSave(r)
    \/ \E r \in Reqs, failed \in BOOLEAN : ForgotMail(r, failed)
    \/ \E r \in Reqs, token \in MailedResets \cup {0}, password \in ResetPasswords :
          ResetPassword(r, token, password)
    \/ \E r \in Reqs : ResetLookup(r)
    \/ \E r \in Reqs : ResetSave(r)
    \/ \E r \in Reqs, bd \in ResetLoginBodies : LoginUser(r, bd)
    \/ \E r \in Reqs : LoginCompare(r)
    \/ \E r \in Reqs : LoginSave(r)

SpecReset == ResetInit /\ [][ResetNext]_vars

(***************************************************************************)
(* Claims about the server.                                                *)
(***************************************************************************)
RefreshOk(r) == req[r].op = "refresh" /\ Done(r) /\ req[r].status = 200
LoginOk(r) == req[r].op = "login" /\ Done(r) /\ req[r].status = 200

\* C1: rotation invalidates the predecessor. Whenever a refresh has succeeded
\* for a presented token T_old, the token it set in the cookie differs from
\* T_old and T_old is not the user's stored refresh token any more, so that a
\* later refresh presenting T_old is answered 401.
C1_RotationInvalidatesPredecessor ==
    \A r \in Reqs :
        RefreshOk(r) =>
            /\ req[r].setCookie # req[r].cookie
            /\ RefreshCheck(req[r].cookie, NoToken) # "ok"

\* the refresh tokens issued to user u that a refresh would accept right now
AcceptedNow(u) ==
    {t \in IssuedRefresh : t.id = u /\ RefreshCheck(t, NoToken) = "ok"}

\* C2: for every user, at most one of the refresh tokens ever issued to the
\* user would be accepted by a refresh now, and that one is the value stored
\* in the user's record.
C2_AtMostOneValidRefreshToken ==
    \A u \in UserIds :
        /\ Cardinality(AcceptedNow(u)) <= 1
        /\ AcceptedNow(u) \subseteq {users[u].refreshToken}

\* C2 witness: two different refresh tokens were issued to one user, both
\* unexpired, and exactly one of them is accepted.
C2_Witness ==
    \E u \in UserIds : \E t1, t2 \in IssuedRefresh :
        /\ t1 # t2 /\ t1.id = u /\ t2.id = u
        /\ JwtVerify(t1, REFRESH_SECRET, now) /\ JwtVerify(t2, REFRESH_SECRET, now)
        /\ AcceptedNow(u) = {t2}

\* C3: login invalidates the prior session. When a login of a user completes
\* after an earlier successful login of the same user, the refresh token of
\* the earlier login is no longer the stored one: a refresh presenting it is
\* answered 401.
C3_LoginInvalidatesPriorSession ==
    [][\A r1, r2 \in Reqs :
          (/\ LoginOk(r1)
           /\ req[r2].op = "login" /\ req[r2].pc = "save" /\ req'[r2].pc = "done"
           /\ req[r2].uid = req[r1].uid)
          => users'[req[r1].uid].refreshToken # req[r1].setCookie]_vars

\* the conditions C4 names that the handler checks on arrival, for a refresh
\* with cookie ck: present, signed with the refresh secret, unexpired
C4_AllHold(ck) ==
    /\ ck # NoToken
    /\ ck.secret = REFRESH_SECRET /\ now < ck.exp

\* C4: a refresh goes on to rotate the refresh token and to issue an access
\* token only when the rt cookie is present, verifies under the refresh secret
\* and is unexpired (on arrival), names an existing user and equals that
\* user's stored token (when the user has been loaded); in every other case
\* it answers 401 without an access token and leaves every user record
\* unchanged. A token in a header or the body plays no part.
C4_RefreshGate ==
    [][\A r \in Reqs :
          /\ (req[r].pc = "idle" /\ req'[r].op = "refresh")
             => /\ users' = users
                /\ IF C4_AllHold(req'[r].cookie)
                   THEN req'[r].pc = "lookup"
                   ELSE /\ req'[r].pc = "done"
                        /\ req'[r].status = 401
                        /\ req'[r].token = NoToken
                        /\ req'[r].setCookie \in {NoToken, ClearedCookie}
          /\ (req[r].op = "refresh" /\ req[r].pc = "lookup" /\ req'[r].pc # "lookup")
             => /\ users' = users
                /\ IF /\ users[req[r].cookie.id].exists
                      /\ users[req[r].cookie.id].refreshToken = req[r].cookie
                   THEN /\ req'[r].pc = "save"
                        /\ req'[r].newAccess = signAccess(req[r].cookie.id, now)
                        /\ req'[r].newRefresh.id = req[r].cookie.id
                   ELSE /\ req'[r].pc = "done"
                        /\ req'[r].status = 401
                        /\ req'[r].token = NoToken
                        /\ req'[r].setCookie = NoToken]_vars

\* C4 witnesses: a refresh without a cookie whose header carried the stored
\* token was answered 401, and a refresh was rejected for a mismatch while
\* another one succeeded.
C4_Witness ==
    /\ \E r \in Reqs : /\ req[r].op = "refresh" /\ Done(r) /\ req[r].status = 401
                       /\ req[r].cookie = NoToken /\ req[r].hdr # NoToken
                       /\ req[r].hdr \in StoredRefresh
    /\ \E r \in Reqs : RefreshOk(r)

\* C5: of two refresh calls presenting the same refresh token, one of which
\* has rotated it to another value, only that one succeeds and the other is
\* answered 401. (Handled one after the other, the second call finds the
\* rotated value; only calls in flight together can both pass the check.)
C5_ConcurrentRefreshOneWinner ==
    \A r1, r2 \in Reqs :
        (/\ r1 # r2
         /\ RefreshOk(r1) /\ req[r1].setCookie # req[r1].cookie
         /\ req[r2].op = "refresh" /\ Done(r2)
         /\ req[r2].cookie = req[r1].cookie)
        => req[r2].status = 401

\* a logout that arrived without rt cookie and has been answered
C14_NoCookieLogout(r) ==
    req[r].op = "logout" /\ Done(r) /\ req[r].cookie = NoToken

\* C14: logout idempotence. A logout arriving without rt cookie is answered
\* with success at once, sets the cookie-clearing header and no token,
\* changes no user record, and its answer is the answer of every such logout
\* before it.
C14_LogoutNoCookieIdempotent ==
    [][\A r \in Reqs :
          (req[r].pc = "idle" /\ req'[r].op = "logout" /\ req'[r].cookie = NoToken)
          => /\ req'[r].pc = "done"
             /\ req'[r].status = 200
             /\ req'[r].setCookie = ClearedCookie
             /\ req'[r].token = NoToken
             /\ users' = users
             /\ \A q \in Reqs :
                   C14_NoCookieLogout(q)
                   => /\ req'[r].status = req[q].status
                      /\ req'[r].message = req[q].message
                      /\ req'[r].setCookie = req[q].setCookie]_vars

\* C14 witness: two logouts without cookie were answered while a user held a
\* stored refresh token.
C14_Witness ==
    /\ \E r1, r2 \in Reqs : r1 # r2 /\ C14_NoCookieLogout(r1) /\ C14_NoCookieLogout(r2)
    /\ \E u \in UserIds : users[u].refreshToken # NoToken

\* a login that was rejected after validation
C16_Rejected(r) ==
    req[r].op = "login" /\ Done(r) /\ req[r].status \notin {200, 422}

\* C16: uniform login failure. A login naming no stored user and a login
\* naming a stored user with a wrong password are answered with the same
\* status and the same message.
C16_UniformLoginFailure ==
    \A r1, r2 \in Reqs :
        (C16_Rejected(r1) /\ C16_Rejected(r2))
        => /\ req[r1].status = req[r2].status
           /\ req[r1].message = req[r2].message

\* C16 witness: one login was rejected for an unknown user (the handler found
\* no document) and one for a wrong password.
C16_Witness ==
    \E r1, r2 \in Reqs :
        /\ C16_Rejected(r1) /\ req[r1].uid = 0
        /\ C16_Rejected(r2) /\ req[r2].uid # 0

\* C17: a registration that passes validation and whose email, in lower
\* case, is the email of a stored user is answered 409 at once: no user
\* record is created or changed, no token is signed or returned and no
\* cookie is set.
C17_RegisterConflict ==
    [][\A r \in Reqs :
          (/\ req[r].pc = "idle" /\ req'[r].op = "register"
           /\ req'[r].body.username # "" /\ req'[r].body.password \notin Short
           /\ \E u \in UserIds : /\ users[u].exists
                                  /\ users[u].email = toLowerCase(req'[r].body.email))
          => /\ req'[r].pc = "done"
             /\ req'[r].status = 409
             /\ req'[r].token = NoToken /\ req'[r].setCookie = NoToken
             /\ req'[r].newAccess = NoToken /\ req'[r].newRefresh = NoToken
             /\ users' = users]_vars

\* C17 witness: a registration under a new username with the email of a
\* stored user, who holds a refresh token, was answered 409.
C17_Witness ==
    \E r \in Reqs : \E u \in UserIds :
        /\ req[r].op = "register" /\ Done(r) /\ req[r].status = 409
        /\ users[u].exists /\ users[u].email = toLowerCase(req[r].body.email)
        /\ users[u].username # req[r].body.username
        /\ users[u].refreshToken # NoToken

C13_RevokedTokenRejected ==
    \A u \in UserIds :
        revoked[u] # NoToken => RefreshCheck(revoked[u], NoToken) # "ok"

(***************************************************************************)
(* Claims about the middleware of the protected routes.                    *)
(***************************************************************************)
\* C11: access-token statelessness. In every deployment and at every moment
\* every access token the server has issued so far is accepted by the
\* middleware, with the id it was issued for, as long as the clock is before
\* its expiry, whatever rotation, logout or password reset has happened to
\* the user's stored refresh token since.
C11_AccessTokenStateless ==
    \A tok \in IssuedAccess :
        now < tok.exp => /\ auth(Bearer(tok)).next
                         /\ auth(Bearer(tok)).userId = tok.id

\* the header carries a Bearer token that verifies under the middleware's
\* secret at the current time
C12_Verifies(header) ==
    /\ header.scheme = "Bearer"
    /\ header.token # NoToken
    /\ header.token.secret = AuthSecret
    /\ now < header.token.exp

\* C12: a request to a protected route without an Authorization header of the
\* form Bearer <token>, or whose token fails verification (signature or
\* expiry), is answered 401 and does not reach the route handler; any other
\* request reaches the handler with the user id of the token attached. The
\* user store is left as it was.
C12_AuthGate ==
    [][preq' # preq
       => /\ IF C12_Verifies(preq'.header)
             THEN /\ preq'.next
                  /\ preq'.userId = preq'.header.token.id
             ELSE /\ preq'.status = 401
                  /\ ~preq'.next
                  /\ preq'.userId = 0
          /\ users' = users]_vars

\* C12 witness: a token the middleware would accept was sent under another
\* scheme than Bearer and the request was answered 401.
C12_Witness ==
    /\ preq.header.scheme = "Basic"
    /\ JwtVerify(preq.header.token, AuthSecret, now)
    /\ preq.status = 401 /\ ~preq.next

\* C18: an access token returned by a successful register, login or refresh
\* and presented as Bearer token before its expiry passes the middleware,
\* which attaches the id of the user it was issued to, in every deployment.
C18_IssuedAccessTokenAccepted ==
    [][(/\ preq' # preq
        /\ preq'.header.scheme = "Bearer"
        /\ preq'.header.token \in IssuedAccess
        /\ now < preq'.header.token.exp)
       => /\ preq'.next
          /\ preq'.userId = preq'.header.token.id]_vars

\* C19: token kinds are not interchangeable. In every deployment a refresh
\* token presented as Bearer token is answered 401 by the middleware, and an
\* access token presented as rt cookie is answered 401 by the refresh
\* handler, on arrival or when the user has been loaded.
C19_TokenKindsSeparate ==
    [][/\ (/\ preq' # preq
            /\ preq'.header.scheme = "Bearer"
            /\ preq'.header.token \in IssuedRefresh)
           => preq'.status = 401 /\ ~preq'.next
       /\ \A r \in Reqs :
              (/\ req'[r].op = "refresh" /\ req'[r].pc # req[r].pc
               /\ req'[r].cookie \in IssuedAccess)
              => \/ req'[r].pc = "lookup"
                 \/ req'[r].pc = "done" /\ req'[r].status = 401]_vars

(***************************************************************************)
(* Claims about the client session agent.                                  *)
(***************************************************************************)
CallIds == 1..Len(calls)

\* the refresh calls a tab made for requests it had sent with access token b
CallsFor(t, b) ==
    {k \in CallIds : calls[k].tab = t /\ creq[calls[k].trigger].firstBearer = b}

\* C6: single-flight. The requests one agent has sent with the same access
\* token and that were answered 401 lead to exactly one call of the refresh
\* endpoint, in whatever order the answers arrive.
C6_SingleFlight ==
    \A t \in Tabs : \A c \in CReqs :
        creq[c].firstBearer # 0
        => Cardinality(CallsFor(t, creq[c].firstBearer)) <= 1

\* C7: replay. Once a refresh has succeeded and the continuations it woke
\* have run, every request that had its first 401 in that cycle - the one
\* that started the refresh and the queued ones - has been sent again, once,
\* with the access token of that refresh.
C7_ReplayAfterRefresh ==
    \A c \in CReqs :
        (/\ creq[c].cycle # 0 /\ calls[creq[c].cycle].result = "ok"
         /\ creq[c].pc # "woken")
        => /\ creq[c].sends = 2
           /\ creq[c].bearer = creq[c].cycle + 1

\* C8: no infinite retry. No request is ever sent more than twice, and an
\* error answer to a request tagged as retried is handed to the caller: no
\* refresh call starts and nothing is put into the queue.
C8_NoInfiniteRetry ==
    [][\A c \in CReqs :
          /\ creq'[c].sends <= 2
          /\ (/\ creq[c].retry /\ creq[c].pc = "inflight"
              /\ creq'[c].pc \notin {"inflight", "ok"})
             => /\ creq'[c].pc = "failed"
                /\ creq'[c].sends = creq[c].sends
                /\ calls' = calls
                /\ waitQueue' = waitQueue
                /\ isRefreshing' = isRefreshing]_vars

\* C8 witness: a request was sent a second time after a refresh, got an error
\* again and was handed to the caller.
C8_Witness ==
    \E c \in CReqs : creq[c].sends = 2 /\ creq[c].pc = "failed" /\ creq[c].why = "retried"

\* C9: hard logout. When the refresh call of a tab fails or is answered
\* without a token, the flag is reset, the queue is emptied and every request
\* in it is rejected, token and user are removed from localStorage before the
\* tab moves to the login view, and the request that started the refresh is
\* rejected without having been sent again; no request of the cycle is left
\* pending.
C9_HardLogout ==
    [][\A t \in Tabs :
          LET k == PendingCall(t) IN
          (k # 0 /\ calls'[k].result \notin {"pending", "ok"})
          => /\ ~isRefreshing'[t]
             /\ waitQueue'[t] = <<>>
             /\ \A c \in Range(waitQueue[t]) \cup {calls[k].trigger} :
                   creq'[c].pc = "failed" /\ creq'[c].sends = creq[c].sends
             /\ \A c \in CReqs : creq[c].cycle = k => creq'[c].pc = "failed"
             /\ lsToken' = 0 /\ ~lsUser'
             /\ Pathname(location'[t]) = "/login"
             /\ location'[t] # location[t] => navToken'[t] = 0]_vars

\* C9 witness: a refresh was answered without a token while another request
\* waited in the queue; both requests were rejected and the tab moved to the
\* login view.
C9_Witness ==
    \E k \in CallIds : \E c \in CReqs :
        /\ calls[k].result = "no token"
        /\ c # calls[k].trigger /\ creq[c].cycle = k
        /\ creq[c].pc = "failed" /\ creq[c].why = "refresh"
        /\ creq[calls[k].trigger].pc = "failed"
        /\ location[calls[k].tab] = "/login?reason=expired"
        /\ lsToken = 0

\* C10: two tabs. Requests that two tabs have sent with the same expired
\* access token lead to one call of the refresh endpoint only, and none of
\* these requests fails because of the refresh.
C10_TwoTabsOneRefresh ==
    /\ \A k1, k2 \in CallIds :
          (calls[k1].tab # calls[k2].tab /\ creq[calls[k1].trigger].firstBearer # 0)
          => creq[calls[k1].trigger].firstBearer # creq[calls[k2].trigger].firstBearer
    /\ \A c1, c2 \in CReqs :
          (/\ TabOf(c1) # TabOf(c2)
           /\ creq[c1].retry /\ creq[c2].retry
           /\ creq[c1].firstBearer # 0
           /\ creq[c1].firstBearer = creq[c2].firstBearer)
          => creq[c1].why # "refresh" /\ creq[c2].why # "refresh"

\* C20: the refresh call goes through a client without response interceptor.
\* When the refresh endpoint answers the call of a tab with an error (401
\* included) or without a token, no further refresh call is made: the list of
\* calls keeps its length and the tab has no call pending afterwards.
C20_RefreshErrorStartsNoRefresh ==
    [][\A t \in Tabs :
          LET k == PendingCall(t) IN
          (k # 0 /\ calls'[k].result \notin {"pending", "ok"})
          => /\ Len(calls') = Len(calls)
             /\ \A j \in 1..Len(calls') :
                   calls'[j].tab = t => calls'[j].result # "pending"]_vars

\* C20 witness: the only refresh call made so far was answered 401 and its
\* cycle is over.
C20_Witness ==
    /\ Len(calls) = 1
    /\ calls[1].result = "401"
    /\ ~isRefreshing[calls[1].tab]
    /\ creq[calls[1].trigger].pc = "failed"

\* C21: every request the agent of a tab sends, a first send or a replay
\* after a refresh, carries the access token that localStorage holds at that
\* moment, and no token when localStorage holds none; a request replayed by a
\* refresh carries the token that refresh returned.
C21_RequestCarriesStoredToken ==
    [][\A c \in CReqs :
          creq'[c].sends > creq[c].sends
          => /\ creq'[c].bearer = lsToken'
             /\ creq[c].pc = "woken" => creq'[c].bearer = creq[c].newToken]_vars

(***************************************************************************)
(* Further claims about the server.                                        *)
(***************************************************************************)
\* C22: a refresh whose rt cookie fails jwt.verify under the refresh secret,
\* by its signature or by its expiry, is answered 401 and the answer clears
\* the rt cookie; no user record changes.
C22_InvalidCookieCleared ==
    [][\A r \in Reqs :
          (/\ req[r].pc = "idle" /\ req'[r].op = "refresh"
           /\ req'[r].cookie # NoToken
           /\ ~JwtVerify(req'[r].cookie, REFRESH_SECRET, now))
          => /\ req'[r].pc = "done"
             /\ req'[r].status = 401
             /\ req'[r].setCookie = ClearedCookie
             /\ req'[r].token = NoToken
             /\ users' = users]_vars

\* C22 witness: one refresh was rejected for an expired cookie that carries
\* the server's own signature, another for a forged signature, and both
\* answers cleared the cookie.
C22_Witness ==
    /\ \E r \in Reqs : /\ req[r].op = "refresh" /\ Done(r) /\ req[r].status = 401
                       /\ req[r].cookie.secret = REFRESH_SECRET
                       /\ req[r].cookie.exp <= now
                       /\ req[r].setCookie = ClearedCookie
    /\ \E r \in Reqs : /\ req[r].op = "refresh" /\ Done(r) /\ req[r].status = 401
                       /\ req[r].cookie \in ForgedTokens
                       /\ req[r].setCookie = ClearedCookie

\* C23: revocation sticks. Once a logout of a user has been answered, the
\* user's stored refresh token stays empty until a register or login of that
\* user completes: no other step, the save of a refresh that was in flight
\* during the logout included, stores a token again.
C23_RevocationSticks ==
    [][\A u \in UserIds :
          (/\ \E l \in Reqs : /\ req[l].op = "logout" /\ Done(l)
                              /\ req[l].status = 200 /\ req[l].uid = u
           /\ users[u].exists
           /\ users[u].refreshToken = NoToken
           /\ users'[u].refreshToken # NoToken)
          => \E r \in Reqs : /\ req[r].op \in {"register", "login"}
                             /\ req[r].uid = u
                             /\ req[r].pc = "save" /\ req'[r].pc = "done"]_vars

\* C26: a logout touches the record of one user at most, the one whose id
\* the presented rt cookie carries, and of that record the refresh token
\* only, which it empties (unless the database rejects the update) whether or
\* not the cookie is the stored token or carries the server's signature; the
\* step that reads the cookie changes no record at all.
C26_LogoutFrame ==
    [][\A r \in Reqs :
          /\ (req[r].pc = "idle" /\ req'[r].op = "logout") => users' = users
          /\ (req[r].op = "logout" /\ req[r].pc = "update" /\ req'[r].pc = "done")
             => LET u == req[r].cookie.id
                    cleared == [users[u] EXCEPT !.refreshToken = NoToken,
                                                !.storedNull = FALSE] IN
                /\ \A v \in UserIds \ {u} : users'[v] = users[v]
                /\ users'[u] = IF req'[r].thrown THEN users[u] ELSE cleared]_vars

\* C26 witness: two users hold a session; a logout presenting a forged cookie
\* with the id of the first has emptied the stored token of the first, and
\* the second still holds its token.
C26_Witness ==
    \E r \in Reqs : \E v \in UserIds :
        /\ req[r].op = "logout" /\ Done(r)
        /\ req[r].cookie \in ForgedTokens
        /\ v # req[r].cookie.id
        /\ users[req[r].cookie.id].exists
        /\ users[req[r].cookie.id].refreshToken = NoToken
        /\ revoked[req[r].cookie.id] \notin {NoToken, req[r].cookie}
        /\ users[v].exists /\ users[v].refreshToken # NoToken

\* a login body that is turned down on arrival: a field is missing, or no
\* user has the identifier as username or e-mail address
C27_Failing(bd) ==
    \/ bd.identifier = "" \/ bd.password = ""
    \/ LoginMatches(bd) = {}

\* C27: a login that fails - by validation or for an unknown user on
\* arrival, for a wrong password when bcrypt.compare has answered - is
\* answered 422 or 401 without a token and without a cookie, and no step of
\* it changes a user record, so that a stored refresh token stays what it
\* was.
C27_FailedLoginFrame ==
    [][\A r \in Reqs :
          /\ (req[r].pc = "idle" /\ req'[r].op = "login")
             => /\ users' = users
                /\ C27_Failing(req'[r].body)
                   => /\ req'[r].pc = "done"
                      /\ req'[r].status \in {401, 422}
                      /\ req'[r].setCookie = NoToken
                      /\ req'[r].token = NoToken
          /\ (/\ req[r].op = "login" /\ req[r].pc = "compare" /\ req'[r].pc # "compare"
              /\ req[r].hash # Hash(req[r].body.password))
             => /\ req'[r].pc = "done"
                /\ req'[r].status = 401
                /\ req'[r].setCookie = NoToken
                /\ req'[r].token = NoToken
                /\ users' = users]_vars

\* C27 witness: a user holds a session; one login with a wrong password and
\* one with a missing field have failed, and a refresh presenting the stored
\* token would still be accepted.
C27_Witness ==
    \E u \in UserIds : \E r1, r2 \in Reqs :
        /\ req[r1].op = "login" /\ Done(r1) /\ req[r1].status = 401
        /\ req[r1].uid = u
        /\ req[r2].op = "login" /\ Done(r2) /\ req[r2].status = 422
        /\ users[u].refreshToken # NoToken
        /\ RefreshCheck(users[u].refreshToken, NoToken) = "ok"

\* the users that an answered request presented: the user the rt cookie of
\* a refresh names, the user a login's identifier belongs to, the user a
\* registration's username belongs to
C28_Presented(r) ==
    {u \in UserIds :
        /\ users[u].exists
        /\ CASE req[r].op = "refresh" -> u = req[r].cookie.id
             [] req[r].op = "login" ->
                    \/ users[u].username = req[r].body.identifier
                    \/ users[u].email = toLowerCase(req[r].body.identifier)
             [] req[r].op = "register" -> users[u].username = req[r].body.username
             [] OTHER -> FALSE}

\* C28: a stored refresh token carries the id of the user whose record holds
\* it, and the access token and the refresh token in a successful answer to
\* register, login or refresh carry the id of the user the request
\* presented, never that of another user.
C28_TokensNameTheirUser ==
    /\ \A u \in UserIds :
           users[u].refreshToken # NoToken => users[u].refreshToken.id = u
    /\ \A r \in DoneReqs :
           (req[r].op \in {"register", "login", "refresh"} /\ req[r].status \in {200, 201})
           => /\ C28_Presented(r) = {req[r].token.id}
              /\ req[r].setCookie.id = req[r].token.id

\* C28 witness: two users hold a refresh token each, and the second user has
\* been answered a refresh.
C28_Witness ==
    /\ \A u \in UserIds : users[u].refreshToken # NoToken
    /\ \E r \in Reqs : RefreshOk(r) /\ req[r].cookie.id = 2 /\ req[r].token.id = 2

\* C29: registrations with the same e-mail address, in flight together or
\* not, never leave two records with that address, and of any two of them
\* that passed validation at most one is answered 201 and every other one is
\* answered 409.
C29_ConcurrentRegisterOneWinner ==
    /\ \A u, v \in UserIds :
           (u # v /\ users[u].exists /\ users[v].exists)
           => users[u].email # users[v].email
    /\ \A r1, r2 \in DoneReqs :
           (/\ r1 # r2
            /\ req[r1].op = "register" /\ req[r2].op = "register"
            /\ req[r1].status # 422 /\ req[r2].status # 422
            /\ toLowerCase(req[r1].body.email) = toLowerCase(req[r2].body.email))
           => \/ req[r1].status = 201 /\ req[r2].status = 409
              \/ req[r1].status = 409 /\ req[r2].status = 201
              \/ req[r1].status = 409 /\ req[r2].status = 409

\* the answered request r is the latest one that concerned its user
C30_Latest(r) ==
    /\ Done(r)
    /\ \A q \in Reqs : (q > r /\ req[q].op # "none") => req[q].uid # req[r].uid

\* C30: when the requests arrive strictly one after the other, then as long
\* as a successful register, login or refresh is the latest request that
\* concerned its user, the rt cookie it set is the refresh token stored for
\* the user, and a refresh presenting that cookie before its expiry would be
\* accepted.
C30_SequentialCookieIsStored ==
    \A r \in Reqs :
        (/\ C30_Latest(r)
         /\ req[r].op \in {"register", "login", "refresh"}
         /\ req[r].status \in {200, 201})
        => /\ users[req[r].uid].refreshToken = req[r].setCookie
           /\ now < req[r].setCookie.exp
              => RefreshCheck(req[r].setCookie, NoToken) = "ok"

\* C30 witness: a client has registered, has refreshed a second later with
\* the cookie of the registration and got another cookie, and has refreshed
\* again with that one; the cookie it holds now is the stored token.
C30_Witness ==
    \E r1, r2, r3 \in Reqs :
        /\ r1 < r2 /\ r2 < r3
        /\ req[r1].op = "register" /\ Done(r1) /\ req[r1].status = 201
        /\ RefreshOk(r2) /\ req[r2].cookie = req[r1].setCookie
        /\ req[r2].setCookie # req[r1].setCookie
        /\ RefreshOk(r3) /\ req[r3].cookie = req[r2].setCookie
        /\ users[req[r3].uid].refreshToken = req[r3].setCookie

(***************************************************************************)
(* Further claims about the client session agent.                          *)
(***************************************************************************)
\* the refresh calls of tab t that have not been answered yet
Outstanding(t) == {k \in CallIds : calls[k].tab = t /\ calls[k].result = "pending"}

\* C24: the agent of a tab has at most one refresh call outstanding, and its
\* isRefreshing is true exactly while a call is outstanding: the flag is
\* false again as soon as the call has been answered, with a token or with a
\* failure.
C24_FlagTracksRefresh ==
    \A t \in Tabs :
        /\ Cardinality(Outstanding(t)) <= 1
        /\ isRefreshing[t] <=> Outstanding(t) # {}

\* C24 witness: one tab has had a refresh call answered with a token and a
\* later one answered with a failure, and its flag is false.
C24_Witness ==
    \E t \in Tabs : \E k1, k2 \in CallIds :
        /\ calls[k1].tab = t /\ calls[k2].tab = t
        /\ calls[k1].result = "ok"
        /\ calls[k2].result \in {"401", "no token"}
        /\ ~isRefreshing[t]

\* C25: between the steps of the interceptor, a tab that has no refresh call
\* outstanding has an empty waitQueue: every continuation put into the queue
\* is resolved or rejected by the cycle in which it was put there.
C25_QueueEmptyWhenIdle ==
    \A t \in Tabs : Outstanding(t) = {} => waitQueue[t] = <<>>

====
